---- MODULE Spec2Model ----
(***************************************************************************)
(* Model of the colour-highlighting engine of SocketGenV2:                 *)
(*   - ColorHighlightController (utils/colorHighlight.ts)                  *)
(*   - the shader helpers it drives (utils/highlightShader.ts)             *)
(*   - the analysis worker's message handler (workers/colorHighlight.      *)
(*     worker.ts)                                                          *)
(* One controller instance, its worker thread, and the meshes of a scene.  *)
(* The main thread is one JavaScript event loop: a public method runs to   *)
(* completion, a promise continuation (microtask) runs before any worker   *)
(* event (macrotask).                                                      *)
(***************************************************************************)
EXTENDS Integers, Sequences, FiniteSets, TLC

(***************************************************************************)
(* Bounds of the model.                                                    *)
(***************************************************************************)
\* number of meshes in the scene
NMesh == 5
\* number of highlight ShaderMaterials the controller may create in a run
MaxShaders == 2
\* number of requests an arbitrary client sends to the worker (WorkerSpec)
MaxWorkerRequests == 3

Meshes == 1..NMesh

(***************************************************************************)
(* Textures.  Each texture has an image of some DOM type and a size.       *)
(***************************************************************************)
Textures == {"texCanvas", "texData", "texWide", "texLong"}

\* texture.image's type, as tested by extractTextureImageData
TexImage(t) ==
    CASE t = "texCanvas" -> "HTMLCanvasElement"
      [] t = "texData"   -> "other"
      [] t = "texWide"   -> "HTMLImageElement"
      [] t = "texLong"   -> "ImageBitmap"

TexWidth(t) ==
    CASE t = "texCanvas" -> 2
      [] t = "texData"   -> 2
      [] t = "texWide"   -> 2
      [] t = "texLong"   -> 4

TexHeight(t) ==
    CASE t = "texCanvas" -> 2
      [] t = "texData"   -> 2
      [] t = "texWide"   -> 1
      [] t = "texLong"   -> 1

(***************************************************************************)
(* Materials.  A material is an object; the model keeps its identity in    *)
(* the record: two equal records are the same object.  Highlight shaders   *)
(* are created by the controller and numbered in creation order; their     *)
(* uniforms live in the variable shaders.                                  *)
(***************************************************************************)
NoTexture == "noTexture"

\* mesh.material is undefined
NoMaterial == [kind |-> "none", tex |-> NoTexture, id |-> 0]

\* a MeshStandardMaterial / MeshBasicMaterial whose .map is t (or absent)
StandardMaterial(t) == [kind |-> "standard", tex |-> t, id |-> 0]

\* the n-th ShaderMaterial built by createHighlightMaterial
HighlightMaterial(n) == [kind |-> "highlight", tex |-> NoTexture, id |-> n]

\* the scene: the material each mesh carries when the controller first sees
\* it.  Mesh 1 has no material, mesh 2 a canvas texture, mesh 3 a texture
\* whose image cannot be rasterised, mesh 4 no texture, mesh 5 an image that
\* is wider than high; further meshes repeat.
SceneMaterial(mesh) ==
    CASE mesh % 5 = 1 -> NoMaterial
      [] mesh % 5 = 2 -> StandardMaterial("texCanvas")
      [] mesh % 5 = 3 -> StandardMaterial("texData")
      [] mesh % 5 = 4 -> StandardMaterial(NoTexture)
      [] OTHER        -> StandardMaterial("texWide")

\* a second scene: mesh 1 has no material, mesh 2 a canvas texture, mesh 3
\* an image of 4 x 1 pixels, and the further meshes no material
LongSceneMaterial(mesh) ==
    CASE mesh = 2 -> StandardMaterial("texCanvas")
      [] mesh = 3 -> StandardMaterial("texLong")
      [] OTHER    -> NoMaterial

(***************************************************************************)
(* Highlight configuration.                                                *)
(***************************************************************************)
ConfigFields == {"color", "opacity", "intensity", "tolerance"}

\* the constructor's defaults (no user overrides)
DefaultConfig ==
    [color |-> "ff6b6b", opacity |-> "0.8", intensity |-> "2.0",
     tolerance |-> "h15s20v30"]

\* the Partial<HighlightConfig> values callers pass to updateConfig
PartialConfigs ==
    { [f \in {"opacity", "tolerance"} |->
          IF f = "opacity" THEN "0.5" ELSE "h10s20v20"] }

\* { ...current, ...partial }
MergeConfig(current, partial) ==
    [f \in ConfigFields |->
        IF f \in DOMAIN partial THEN partial[f] ELSE current[f]]

\* the target colours callers pass to highlightColor
Targets == {"red"}

(***************************************************************************)
(* Masks and shader uniforms (highlightShader.ts).                         *)
(***************************************************************************)
\* the all-black 256x256 canvas a new highlight material starts with
EmptyMask ==
    [tex |-> NoTexture, target |-> "none", len |-> 256 * 256, w |-> 256, h |-> 256]

\* a plausible slip: a new material starts with the highlight switched on
createHighlightMaterialEnabled(texture, cfg) ==
    [originalTexture    |-> texture,
     highlightMask      |-> EmptyMask,
     highlightColor     |-> cfg.color,
     highlightOpacity   |-> cfg.opacity,
     highlightIntensity |-> cfg.intensity,
     enableHighlight    |-> TRUE]

\* createHighlightMaterial(originalTexture, options)
createHighlightMaterial(texture, cfg) ==
    [originalTexture    |-> texture,
     highlightMask      |-> EmptyMask,
     highlightColor     |-> cfg.color,
     highlightOpacity   |-> cfg.opacity,
     highlightIntensity |-> cfg.intensity,
     enableHighlight    |-> FALSE]

\* updateHighlightMask(material, maskData, width, height)
updateHighlightMask(material, maskData, width, height) ==
    [material EXCEPT
        !.highlightMask = [tex |-> maskData.tex, target |-> maskData.target,
                           len |-> maskData.len, w |-> width, h |-> height],
        !.enableHighlight = TRUE]

\* a plausible slip: clearing also throws the mask texture away
clearHighlightsDropMask(material) ==
    [material EXCEPT !.enableHighlight = FALSE, !.highlightMask = EmptyMask]

\* a plausible slip: the flag is flipped instead of being switched off
clearHighlightsToggle(material) ==
    [material EXCEPT !.enableHighlight = ~@]

\* clearHighlights(material)
clearHighlights(material) ==
    [material EXCEPT !.enableHighlight = FALSE]

\* a plausible slip: the opacity is not written
updateHighlightPropertiesNoOpacity(material, cfg) ==
    [material EXCEPT
        !.highlightColor = cfg.color,
        !.highlightIntensity = cfg.intensity]

\* updateHighlightProperties(material, {color, opacity, intensity})
updateHighlightProperties(material, cfg) ==
    [material EXCEPT
        !.highlightColor = cfg.color,
        !.highlightOpacity = cfg.opacity,
        !.highlightIntensity = cfg.intensity]

(***************************************************************************)
(* Worker protocol (colorHighlight.worker.ts).                             *)
(***************************************************************************)
NoMask == [tex |-> NoTexture, target |-> "none", len |-> 0]

\* a request as the worker's handler sees it: its type, whether imageData,
\* targetColor and tolerance are all present, and whether analyzeTexture
\* runs to completion on the image data (well-formed data, mask allocated)
Request(type, hasParams, imageOk, tex, target, tolerance) ==
    [type |-> type, hasParams |-> hasParams, imageOk |-> imageOk,
     tex |-> tex, target |-> target, tolerance |-> tolerance]

\* analyzeTexture's mask: one byte per pixel of the analysed image
analyzeTexture(req) ==
    [tex |-> req.tex, target |-> req.target,
     len |-> TexWidth(req.tex) * TexHeight(req.tex)]

Response(type, mask) == [type |-> type, highlightMask |-> mask]

\* does the body of the handler's try block throw on this request?
HandlerThrows(req) ==
    CASE req.type = "analyze" -> ~req.hasParams \/ ~req.imageOk
      [] req.type = "clear"   -> FALSE
      [] OTHER                -> TRUE

\* a plausible slip: no try/catch, so a throwing request posts nothing
onmessageNoCatch(req) ==
    IF HandlerThrows(req) THEN << >>
    ELSE IF req.type = "analyze"
         THEN << Response("analysis-complete", analyzeTexture(req)) >>
         ELSE << Response("highlight-ready", NoMask) >>

\* self.onmessage: the responses the handler posts for one request
onmessage(req) ==
    IF HandlerThrows(req) THEN << Response("error", NoMask) >>
    ELSE IF req.type = "analyze"
         THEN << Response("analysis-complete", analyzeTexture(req)) >>
         ELSE << Response("highlight-ready", NoMask) >>

(***************************************************************************)
(* State.                                                                  *)
(***************************************************************************)
VARIABLES
    \* the scene
    meshMaterial,        \* mesh.material of every mesh
    shaders,             \* uniforms of the highlight materials, by number
    \* ColorHighlightController's fields
    hasWorker,           \* this.worker !== null
    originalMaterials,   \* Map<Mesh, Material>: a function on the keys
    highlightMaterials,  \* Map<Mesh, ShaderMaterial>, in insertion order
    isProcessing,
    currentConfig,
    hasCallback,         \* an onStatsUpdate callback was given
    pending,             \* the promise of extractTextureImageData, if any
    \* the worker thread and the two message queues
    wstate,              \* "absent", "loading", "running", "failed", "terminated"
    inbox,               \* requests posted to the worker, not yet handled
    outbox,              \* responses posted by the worker, not yet delivered
    \* what the last step did, as its caller or a test observes it
    lastOp,              \* the method or handler that ran
    lastRet,             \* its result or the branch it took
    cbOut,               \* the onStatsUpdate calls it made
    \* history
    initMaterial,        \* the material every mesh had at the start
    sinceClear,          \* "never", "cleared", "accepted"
    errorSeen,           \* a worker error event has been delivered
    handled,             \* requests the worker has handled (WorkerSpec)
    panel                \* the ColorAnalysisPanel component (PanelSpec)

sceneVars == <<meshMaterial, shaders>>
ctlVars == <<hasWorker, originalMaterials, highlightMaterials, isProcessing,
             currentConfig, hasCallback, pending>>
workerVars == <<wstate, inbox, outbox>>
obsVars == <<lastOp, lastRet, cbOut>>
histVars == <<initMaterial, sinceClear, errorSeen, handled, panel>>
vars == <<sceneVars, ctlVars, workerVars, obsVars, histVars>>

\* everything a caller can tell about the controller, the scene and the worker
progVars == <<sceneVars, ctlVars, workerVars>>

\* ColorAnalysisPanel before it is given a mesh: the mesh prop is null (0),
\* highlightControllerRef.current is null (0), no controller has been
\* constructed and no palette analysis is under way
NoPanel ==
    [mounted |-> TRUE, mesh |-> 0, ref |-> 0, controllers |-> << >>, analyses |-> << >>]

NoPending == [kind |-> "none", target |-> "none", tex |-> NoTexture, ok |-> FALSE]

NullStats == [kind |-> "null", tex |-> NoTexture, target |-> "none"]

Stats(mask) == [kind |-> "stats", tex |-> mask.tex, target |-> mask.target]

\* the empty Map
EmptyMap == [m \in {} |-> NoMaterial]

(***************************************************************************)
(* Map<Mesh, ShaderMaterial> with JavaScript's insertion order.            *)
(***************************************************************************)
MapKeys(map) == {map[i].mesh : i \in DOMAIN map}

MapGet(map, mesh) == (CHOOSE i \in DOMAIN map : map[i].mesh = mesh)

\* Map.prototype.set: a new key goes last, an old key keeps its place
MapSet(map, mesh, id) ==
    IF mesh \in MapKeys(map)
    THEN [i \in DOMAIN map |->
            IF map[i].mesh = mesh THEN [mesh |-> mesh, id |-> id] ELSE map[i]]
    ELSE Append(map, [mesh |-> mesh, id |-> id])

\* the shader numbers the controller currently holds
BoundIds == {highlightMaterials[i].id : i \in DOMAIN highlightMaterials}

\* this.highlightMaterials.forEach(material => f(material))
ForEachBound(f(_)) ==
    [i \in DOMAIN shaders |-> IF i \in BoundIds THEN f(shaders[i]) ELSE shaders[i]]

(***************************************************************************)
(* Garbage.  A shader that no mesh and no map of the controller refers to  *)
(* can no longer be reached by the program; its uniforms are forgotten.    *)
(***************************************************************************)
\* the numbers of the shaders still referred to (0 stands for no shader)
Referenced(materials, originals, highlights) ==
    {materials[m].id : m \in DOMAIN materials}
        \cup {originals[m].id : m \in DOMAIN originals}
        \cup {highlights[k].id : k \in DOMAIN highlights}

\* what is kept of an unreachable shader
Collected ==
    [originalTexture    |-> NoTexture,
     highlightMask      |-> EmptyMask,
     highlightColor     |-> "none",
     highlightOpacity   |-> "none",
     highlightIntensity |-> "none",
     enableHighlight    |-> FALSE]

Collect(uniforms, materials, originals, highlights) ==
    LET live == Referenced(materials, originals, highlights)
    IN  [i \in DOMAIN uniforms |-> IF i \in live THEN uniforms[i] ELSE Collected]

(***************************************************************************)
(* Initial state: a controller just constructed, nothing set up.           *)
(***************************************************************************)
\* the constructor: initializeWorker either builds the worker or catches
Init ==
    /\ meshMaterial = [m \in Meshes |-> SceneMaterial(m)]
    /\ initMaterial = meshMaterial
    /\ panel = NoPanel
    /\ shaders = << >>
    /\ hasWorker \in BOOLEAN
    /\ wstate = IF hasWorker THEN "loading" ELSE "absent"
    /\ originalMaterials = EmptyMap
    /\ highlightMaterials = << >>
    /\ isProcessing = FALSE
    /\ currentConfig = DefaultConfig
    /\ hasCallback \in BOOLEAN
    /\ pending = NoPending
    /\ inbox = << >>
    /\ outbox = << >>
    /\ lastOp = "constructor"
    /\ lastRet = "none"
    /\ cbOut = << >>
    /\ sinceClear = "never"
    /\ errorSeen = FALSE
    /\ handled = << >>

\* the onStatsUpdate calls of a step that reports v
Callback(v) == IF hasCallback THEN << v >> ELSE << >>

\* the observation a step leaves behind
Observe(op, ret, cb) ==
    /\ lastOp' = op
    /\ lastRet' = ret
    /\ cbOut' = cb

(***************************************************************************)
(* ColorHighlightController: public methods.                               *)
(***************************************************************************)
\* the texture setupMeshHighlighting discovers in a material: .map of a
\* standard material, else uniforms.originalTexture of a highlight shader
DiscoverTexture(material) ==
    CASE material.kind = "standard"  -> material.tex
      [] material.kind = "highlight" -> shaders[material.id].originalTexture
      [] OTHER                       -> NoTexture

\* Map.prototype.set on originalMaterials
SetOriginal(mesh, material) ==
    [m \in DOMAIN originalMaterials \cup {mesh} |->
        IF m = mesh THEN material ELSE originalMaterials[m]]

\* setupMeshHighlighting(mesh)
SetupMeshHighlighting(mesh) ==
    LET material == meshMaterial[mesh]
        texture  == DiscoverTexture(material)
        id       == Len(shaders) + 1
    IN  /\ UNCHANGED <<hasWorker, isProcessing, currentConfig, hasCallback, pending>>
        /\ UNCHANGED <<workerVars, histVars>>
        /\ IF material = NoMaterial
           THEN /\ UNCHANGED <<sceneVars, originalMaterials, highlightMaterials>>
                /\ Observe("setupMeshHighlighting", "false", << >>)
           ELSE IF texture = NoTexture
           THEN /\ originalMaterials' = SetOriginal(mesh, material)
                /\ UNCHANGED <<sceneVars, highlightMaterials>>
                /\ Observe("setupMeshHighlighting", "false", << >>)
           ELSE /\ id <= MaxShaders
                /\ originalMaterials' = SetOriginal(mesh, material)
                /\ shaders' = Collect(
                       Append(shaders, createHighlightMaterial(texture, currentConfig)),
                       [meshMaterial EXCEPT ![mesh] = HighlightMaterial(id)],
                       SetOriginal(mesh, material),
                       MapSet(highlightMaterials, mesh, id))
                /\ highlightMaterials' = MapSet(highlightMaterials, mesh, id)
                /\ meshMaterial' = [meshMaterial EXCEPT ![mesh] = HighlightMaterial(id)]
                /\ Observe("setupMeshHighlighting", "true", << >>)

\* a plausible slip: the busy flag is not consulted
HighlightGuardNoBusy == ~hasWorker

\* a plausible slip: the worker is not looked at
HighlightGuardNoWorker == isProcessing

\* highlightColor's first test: drop the call?
HighlightGuard == isProcessing \/ ~hasWorker

\* a plausible slip: the flag raised before the lookup is left raised
FlagAfterNoMeshKept == TRUE

\* isProcessing when highlightColor returns for want of a bound mesh
FlagAfterNoMesh == FALSE

\* does extractTextureImageData resolve for this texture?
Extractable(texture) ==
    TexImage(texture) \in {"HTMLImageElement", "ImageBitmap", "HTMLCanvasElement"}

\* highlightColor(targetColor), up to the call of extractTextureImageData
HighlightColor(target) ==
    /\ UNCHANGED <<sceneVars, hasWorker, originalMaterials, highlightMaterials,
                   currentConfig, hasCallback>>
    /\ UNCHANGED <<workerVars, initMaterial, panel, errorSeen, handled>>
    /\ IF HighlightGuard
       THEN /\ UNCHANGED <<isProcessing, pending, sinceClear>>
            /\ Observe("highlightColor", "dropped", << >>)
       ELSE IF highlightMaterials = << >>
       THEN /\ isProcessing' = FlagAfterNoMesh
            /\ UNCHANGED <<pending, sinceClear>>
            /\ Observe("highlightColor", "no mesh", << >>)
       ELSE LET texture == shaders[highlightMaterials[1].id].originalTexture
            IN  /\ isProcessing' = TRUE
                /\ pending' = [kind |-> "extract", target |-> target,
                               tex |-> texture, ok |-> Extractable(texture)]
                /\ sinceClear' = "accepted"
                /\ Observe("highlightColor", "accepted", << >>)

\* the continuation of highlightColor: .then(post the request) or .catch
ExtractionSettled ==
    /\ pending.kind = "extract"
    /\ pending' = NoPending
    /\ UNCHANGED <<sceneVars, hasWorker, originalMaterials, highlightMaterials,
                   currentConfig, hasCallback, wstate, outbox, histVars>>
    /\ IF pending.ok /\ hasWorker
       THEN /\ \E imageOk \in BOOLEAN :
                 inbox' = Append(inbox,
                     Request("analyze", TRUE, imageOk, pending.tex,
                             pending.target, currentConfig.tolerance))
            /\ UNCHANGED isProcessing
            /\ Observe("extraction", "posted", << >>)
       ELSE /\ isProcessing' = FALSE
            /\ UNCHANGED inbox
            /\ Observe("extraction", "failed", Callback(NullStats))

\* get isHighlighting()
isHighlighting == Len(highlightMaterials) > 0

\* updateConfig(newConfig)
UpdateConfig(newConfig) ==
    LET merged == MergeConfig(currentConfig, newConfig)
        push(material) == updateHighlightProperties(material, merged)
    IN  /\ currentConfig' = merged
        /\ shaders' = ForEachBound(push)
        /\ UNCHANGED <<meshMaterial, hasWorker, originalMaterials, highlightMaterials,
                       isProcessing, hasCallback, pending>>
        /\ UNCHANGED <<workerVars, histVars>>
        /\ Observe("updateConfig", "none", << >>)

\* a plausible slip: clearing also gives up the request in flight
ClearHighlightsResetsBusy ==
    /\ shaders' = ForEachBound(clearHighlights)
    /\ sinceClear' = "cleared"
    /\ isProcessing' = FALSE
    /\ UNCHANGED <<meshMaterial, hasWorker, originalMaterials, highlightMaterials,
                   currentConfig, hasCallback, pending>>
    /\ UNCHANGED <<workerVars, initMaterial, panel, errorSeen, handled>>
    /\ Observe("clearHighlights", "none", Callback(NullStats))

\* clearHighlights()
ClearHighlights ==
    /\ shaders' = ForEachBound(clearHighlights)
    /\ sinceClear' = "cleared"
    /\ UNCHANGED <<meshMaterial, ctlVars, workerVars, initMaterial, panel, errorSeen, handled>>
    /\ Observe("clearHighlights", "none", Callback(NullStats))

\* a plausible slip: the loop over originalMaterials is missing
RestoredMaterialsNone == meshMaterial

\* originalMaterials.forEach((original, mesh) => mesh.material = original)
RestoredMaterials ==
    [m \in Meshes |->
        IF m \in DOMAIN originalMaterials THEN originalMaterials[m]
        ELSE meshMaterial[m]]

\* restoreOriginalMaterials()
RestoreOriginalMaterials ==
    /\ meshMaterial' = RestoredMaterials
    /\ shaders' = Collect(ForEachBound(clearHighlights), RestoredMaterials,
                          originalMaterials, << >>)
    /\ highlightMaterials' = << >>
    /\ sinceClear' = "cleared"
    /\ UNCHANGED <<hasWorker, originalMaterials, isProcessing, currentConfig,
                   hasCallback, pending>>
    /\ UNCHANGED <<workerVars, initMaterial, panel, errorSeen, handled>>
    /\ Observe("restoreOriginalMaterials", "none", Callback(NullStats))

\* worker.terminate(): the worker stops, its queue is discarded; whether a
\* response already posted is still delivered is left to the browser
Terminate ==
    /\ wstate' = "terminated"
    /\ inbox' = << >>
    /\ outbox' \in {outbox, << >>}

\* dispose(), also reached as cleanup()
DisposeBody(name) ==
    /\ meshMaterial' = RestoredMaterials
    /\ shaders' = Collect(ForEachBound(clearHighlights), RestoredMaterials,
                          EmptyMap, << >>)
    /\ IF hasWorker THEN Terminate ELSE UNCHANGED workerVars
    /\ hasWorker' = FALSE
    /\ originalMaterials' = EmptyMap
    /\ highlightMaterials' = << >>
    /\ sinceClear' = "cleared"
    /\ UNCHANGED <<isProcessing, currentConfig, hasCallback, pending>>
    /\ UNCHANGED <<initMaterial, panel, errorSeen, handled>>
    /\ Observe(name, "none", Callback(NullStats))

Dispose == DisposeBody("dispose")

Cleanup == DisposeBody("cleanup")

(***************************************************************************)
(* ColorHighlightController: event handlers.                               *)
(***************************************************************************)
IsSquare(n) == \E k \in 0..n : k * k = n

Sqrt(n) == CHOOSE k \in 0..n : k * k = n

\* a plausible slip: the square root is rounded down and used unchecked
applyHighlightMaskUnchecked(maskData) ==
    LET size == CHOOSE k \in 0..maskData.len :
                    k * k <= maskData.len /\ (k + 1) * (k + 1) > maskData.len
        apply(material) ==
            updateHighlightProperties(
                updateHighlightMask(material, maskData, size, size),
                currentConfig)
    IN  ForEachBound(apply)

\* applyHighlightMask(maskData, matchingPixels): the shaders afterwards
applyHighlightMask(maskData) ==
    LET size == Sqrt(maskData.len)
        apply(material) ==
            updateHighlightProperties(
                updateHighlightMask(material, maskData, size, size),
                currentConfig)
    IN  IF ~IsSquare(maskData.len) THEN shaders ELSE ForEachBound(apply)

\* handleWorkerResponse(response), run by worker.onmessage.  A worker event
\* is a task: it waits for the promise continuation of the running task.
OnMessage ==
    /\ outbox # << >>
    /\ pending.kind = "none"
    /\ LET response == Head(outbox)
       IN  /\ outbox' = Tail(outbox)
           /\ isProcessing' = FALSE
           /\ CASE response.type = "analysis-complete" ->
                     /\ shaders' = applyHighlightMask(response.highlightMask)
                     /\ Observe("onmessage", response.type,
                                Callback(Stats(response.highlightMask)))
                [] response.type = "error" ->
                     /\ UNCHANGED shaders
                     /\ Observe("onmessage", response.type, Callback(NullStats))
                [] OTHER ->
                     /\ UNCHANGED shaders
                     /\ Observe("onmessage", response.type, << >>)
    /\ UNCHANGED <<meshMaterial, hasWorker, originalMaterials, highlightMaterials,
                   currentConfig, hasCallback, pending, wstate, inbox, histVars>>

\* worker.onerror.  The worker's handler catches whatever its own code
\* throws, so the error event reports that the worker script failed to load
\* or to evaluate: such a worker never handles a request.
OnError ==
    /\ wstate = "loading"
    /\ pending.kind = "none"
    /\ wstate' = "failed"
    /\ isProcessing' = FALSE
    /\ errorSeen' = TRUE
    /\ UNCHANGED <<sceneVars, hasWorker, originalMaterials, highlightMaterials,
                   currentConfig, hasCallback, pending, inbox, outbox>>
    /\ UNCHANGED <<initMaterial, panel, sinceClear, handled>>
    /\ Observe("onerror", IF isProcessing THEN "busy" ELSE "idle", << >>)

(***************************************************************************)
(* The worker thread.                                                      *)
(***************************************************************************)
\* the worker script has loaded and set self.onmessage
WorkerStart ==
    /\ wstate = "loading"
    /\ wstate' = "running"
    /\ UNCHANGED <<sceneVars, ctlVars, inbox, outbox, histVars>>
    /\ Observe("workerStart", "none", << >>)

\* one run of self.onmessage on the oldest request
WorkerHandle ==
    /\ wstate = "running"
    /\ inbox # << >>
    /\ inbox' = Tail(inbox)
    /\ outbox' = outbox \o onmessage(Head(inbox))
    /\ UNCHANGED <<sceneVars, ctlVars, wstate>>
    /\ UNCHANGED <<initMaterial, panel, sinceClear, errorSeen>>
    /\ Observe("workerOnMessage", "none", << >>)

WorkerOnMessage == WorkerHandle /\ UNCHANGED handled

(***************************************************************************)
(* The controller with its worker.                                         *)
(***************************************************************************)
Next ==
    \/ \E mesh \in Meshes : SetupMeshHighlighting(mesh)
    \/ \E target \in Targets : HighlightColor(target)
    \/ ExtractionSettled
    \/ \E newConfig \in PartialConfigs : UpdateConfig(newConfig)
    \/ ClearHighlights
    \/ RestoreOriginalMaterials
    \/ Dispose
    \/ Cleanup
    \/ OnMessage
    \/ OnError
    \/ WorkerStart
    \/ WorkerOnMessage

Spec == Init /\ [][Next]_vars

\* the controller in the second scene
LongInit ==
    /\ meshMaterial = [m \in Meshes |-> LongSceneMaterial(m)]
    /\ initMaterial = meshMaterial
    /\ panel = NoPanel
    /\ shaders = << >>
    /\ hasWorker \in BOOLEAN
    /\ wstate = IF hasWorker THEN "loading" ELSE "absent"
    /\ originalMaterials = EmptyMap
    /\ highlightMaterials = << >>
    /\ isProcessing = FALSE
    /\ currentConfig = DefaultConfig
    /\ hasCallback \in BOOLEAN
    /\ pending = NoPending
    /\ inbox = << >>
    /\ outbox = << >>
    /\ lastOp = "constructor"
    /\ lastRet = "none"
    /\ cbOut = << >>
    /\ sinceClear = "never"
    /\ errorSeen = FALSE
    /\ handled = << >>

LongSpec == LongInit /\ [][Next]_vars

(***************************************************************************)
(* The worker alone, fed by an arbitrary client.                           *)
(***************************************************************************)
\* the requests a client may post: well-formed, incomplete or malformed
\* analyze requests, clear, the declared but unhandled type, an unknown type
ClientRequests ==
    { Request("analyze", TRUE, TRUE, "texCanvas", "red", "h15s20v30"),
      Request("analyze", FALSE, TRUE, "texCanvas", "red", "h15s20v30"),
      Request("analyze", TRUE, FALSE, "texCanvas", "red", "h15s20v30"),
      Request("clear", FALSE, FALSE, NoTexture, "none", "none"),
      Request("highlight", TRUE, TRUE, "texCanvas", "red", "h15s20v30"),
      Request("unknown", FALSE, FALSE, NoTexture, "none", "none") }

WorkerInit ==
    /\ meshMaterial = [m \in Meshes |-> SceneMaterial(m)]
    /\ initMaterial = meshMaterial
    /\ panel = NoPanel
    /\ shaders = << >>
    /\ hasWorker = TRUE
    /\ wstate = "loading"
    /\ originalMaterials = EmptyMap
    /\ highlightMaterials = << >>
    /\ isProcessing = FALSE
    /\ currentConfig = DefaultConfig
    /\ hasCallback = FALSE
    /\ pending = NoPending
    /\ inbox = << >>
    /\ outbox = << >>
    /\ lastOp = "constructor"
    /\ lastRet = "none"
    /\ cbOut = << >>
    /\ sinceClear = "never"
    /\ errorSeen = FALSE
    /\ handled = << >>

\* worker.postMessage(request) by the client
ClientPost(request) ==
    /\ Len(handled) + Len(inbox) < MaxWorkerRequests
    /\ inbox' = Append(inbox, request)
    /\ UNCHANGED <<sceneVars, ctlVars, wstate, outbox, histVars>>
    /\ Observe("postMessage", "none", << >>)

\* the handler runs, and the request it ran on is logged
WorkerServe == WorkerHandle /\ handled' = Append(handled, Head(inbox))

WorkerNext ==
    \/ \E request \in ClientRequests : ClientPost(request)
    \/ WorkerStart
    \/ WorkerServe

WorkerSpec == WorkerInit /\ [][WorkerNext]_vars

(***************************************************************************)
(* The analysis on pixel data (colorHighlight.worker.ts).  A JavaScript    *)
(* number is kept as an exact fraction with a positive denominator; the    *)
(* rounding of floating point arithmetic is not modelled.                  *)
(***************************************************************************)
\* number of pixels of the largest image analysed (AnalysisSpec)
MaxPixels == 4

Frac(n, d) == [num |-> n, den |-> d]

\* Math.abs on integers
Abs(n) == IF n < 0 THEN -n ELSE n

\* Math.abs(p - q)
FracAbsDiff(p, q) == Frac(Abs(p.num * q.den - q.num * p.den), p.den * q.den)

\* p <= n and n - p, for an integer n
FracLeq(p, n) == p.num <= n * p.den

IntMinusFrac(n, p) == Frac(n * p.den - p.num, p.den)

Max2(a, b) == IF a >= b THEN a ELSE b

Min2(a, b) == IF a <= b THEN a ELSE b

\* a plausible slip: a negative hue is not wrapped round
rgbToHsvNoWrap(r, g, b) ==
    LET max   == Max2(r, Max2(g, b))
        min   == Min2(r, Min2(g, b))
        delta == max - min
        h6    == IF delta = 0 THEN Frac(0, 1)
                 ELSE IF max = r THEN Frac(g - b, delta)
                 ELSE IF max = g THEN Frac((b - r) + 2 * delta, delta)
                 ELSE Frac((r - g) + 4 * delta, delta)
        s     == IF max = 0 THEN Frac(0, 1) ELSE Frac(100 * delta, max)
    IN  [h |-> Frac(60 * h6.num, h6.den), s |-> s, v |-> Frac(100 * max, 255)]

\* rgbToHsv(r, g, b): [h * 360, s * 100, v * 100].  Dividing r, g and b by
\* 255 first leaves (g - b) / delta and delta / max as they are.
rgbToHsv(r, g, b) ==
    LET max   == Max2(r, Max2(g, b))
        min   == Min2(r, Min2(g, b))
        delta == max - min
        \* h before h /= 6; in the first branch |g - b| <= delta, so that
        \* the remainder % 6 changes nothing
        h6    == IF delta = 0 THEN Frac(0, 1)
                 ELSE IF max = r THEN Frac(g - b, delta)
                 ELSE IF max = g THEN Frac((b - r) + 2 * delta, delta)
                 ELSE Frac((r - g) + 4 * delta, delta)
        \* h /= 6; if (h < 0) h += 1; h * 360
        h     == IF h6.num < 0 THEN Frac(60 * h6.num + 360 * h6.den, h6.den)
                 ELSE Frac(60 * h6.num, h6.den)
        s     == IF max = 0 THEN Frac(0, 1) ELSE Frac(100 * delta, max)
        v     == Frac(100 * max, 255)
    IN  [h |-> h, s |-> s, v |-> v]

\* a plausible slip: hues are compared on the line, not on the circle
colorMatchesLinearHue(hsv1, hsv2, tolerance) ==
    /\ FracLeq(FracAbsDiff(hsv1.h, hsv2.h), tolerance.h)
    /\ FracLeq(FracAbsDiff(hsv1.s, hsv2.s), tolerance.s)
    /\ FracLeq(FracAbsDiff(hsv1.v, hsv2.v), tolerance.v)

\* a plausible slip: the comparison of the values is turned round
colorMatchesValueReversed(hsv1, hsv2, tolerance) ==
    LET diff  == FracAbsDiff(hsv1.h, hsv2.h)
        hDiff == IF ~FracLeq(diff, 180) THEN IntMinusFrac(360, diff) ELSE diff
    IN  /\ FracLeq(hDiff, tolerance.h)
        /\ FracLeq(FracAbsDiff(hsv1.s, hsv2.s), tolerance.s)
        /\ ~FracLeq(FracAbsDiff(hsv1.v, hsv2.v), tolerance.v)

\* colorMatches(hsv1, hsv2, tolerance)
colorMatches(hsv1, hsv2, tolerance) ==
    LET diff  == FracAbsDiff(hsv1.h, hsv2.h)
        hDiff == IF ~FracLeq(diff, 180) THEN IntMinusFrac(360, diff) ELSE diff
    IN  /\ FracLeq(hDiff, tolerance.h)
        /\ FracLeq(FracAbsDiff(hsv1.s, hsv2.s), tolerance.s)
        /\ FracLeq(FracAbsDiff(hsv1.v, hsv2.v), tolerance.v)

\* a pixel: the four bytes data[i] .. data[i + 3] of an ImageData
Pixel(r, g, b, a) == [r |-> r, g |-> g, b |-> b, a |-> a]

\* imageData: its pixels row by row, pixel (x, y) at place y * width + x + 1
ImageData(width, height, data) == [width |-> width, height |-> height, data |-> data]

\* a plausible slip: the box starts at the origin instead of at the far corner
scanStartAtOrigin(width, height) ==
    [mask |-> [k \in 1..(width * height) |-> 0], matchingPixels |-> 0,
     minX |-> 0, minY |-> 0, maxX |-> 0, maxY |-> 0]

\* analyzeTexture before its loops: an all-zero mask, no match, an empty box
scanStart(width, height) ==
    [mask |-> [k \in 1..(width * height) |-> 0], matchingPixels |-> 0,
     minX |-> width, minY |-> height, maxX |-> 0, maxY |-> 0]

\* a plausible slip: a matching pixel is counted before its alpha is tested
scanPixelCountsTransparent(acc, imageData, x, y, targetHSV, tolerance) ==
    LET pixel == imageData.data[y * imageData.width + x + 1]
        match == colorMatches(rgbToHsv(pixel.r, pixel.g, pixel.b), targetHSV, tolerance)
    IN  IF ~match THEN acc
        ELSE IF pixel.a < 128
        THEN [acc EXCEPT !.matchingPixels = @ + 1]
        ELSE [mask |-> [acc.mask EXCEPT ![y * imageData.width + x + 1] = 255],
              matchingPixels |-> acc.matchingPixels + 1,
              minX |-> Min2(acc.minX, x), minY |-> Min2(acc.minY, y),
              maxX |-> Max2(acc.maxX, x), maxY |-> Max2(acc.maxY, y)]

\* the body of analyzeTexture's inner loop, at pixel (x, y)
scanPixel(acc, imageData, x, y, targetHSV, tolerance) ==
    LET pixel == imageData.data[y * imageData.width + x + 1]
    IN  IF pixel.a < 128 THEN acc
        ELSE IF colorMatches(rgbToHsv(pixel.r, pixel.g, pixel.b), targetHSV, tolerance)
        THEN [mask |-> [acc.mask EXCEPT ![y * imageData.width + x + 1] = 255],
              matchingPixels |-> acc.matchingPixels + 1,
              minX |-> Min2(acc.minX, x), minY |-> Min2(acc.minY, y),
              maxX |-> Max2(acc.maxX, x), maxY |-> Max2(acc.maxY, y)]
        ELSE acc

\* the two loops of analyzeTexture from pixel number k on (y outer, x inner)
RECURSIVE scanFrom(_, _, _, _, _)
scanFrom(acc, imageData, k, targetHSV, tolerance) ==
    IF k >= imageData.width * imageData.height THEN acc
    ELSE scanFrom(scanPixel(acc, imageData, k % imageData.width,
                            k \div imageData.width, targetHSV, tolerance),
                  imageData, k + 1, targetHSV, tolerance)

\* analyzeTexture(imageData, targetColor, tolerance): mask and statistics
analyzeTextureData(imageData, targetColor, tolerance) ==
    LET width     == imageData.width
        height    == imageData.height
        targetHSV == [h |-> Frac(targetColor.h, 1), s |-> Frac(targetColor.s, 1),
                      v |-> Frac(targetColor.v, 1)]
        acc       == scanFrom(scanStart(width, height), imageData, 0,
                              targetHSV, tolerance)
    IN  [mask  |-> acc.mask,
         stats |-> [matchingPixels |-> acc.matchingPixels,
                    coverage |-> Frac(acc.matchingPixels, width * height),
                    boundingBox |->
                        IF acc.matchingPixels > 0
                        THEN [min |-> << Frac(acc.minX, width), Frac(acc.minY, height) >>,
                              max |-> << Frac(acc.maxX, width), Frac(acc.maxY, height) >>]
                        ELSE [min |-> << Frac(0, 1), Frac(0, 1) >>,
                              max |-> << Frac(0, 1), Frac(0, 1) >>]]]

\* the analysis-complete response self.onmessage builds from the result
AnalysisComplete(result) ==
    [type           |-> "analysis-complete",
     highlightMask  |-> result.mask,
     matchingPixels |-> result.stats.matchingPixels,
     coverage       |-> result.stats.coverage,
     boundingBox    |-> result.stats.boundingBox]

(***************************************************************************)
(* The worker analysing one image, for every image, target and tolerance   *)
(* of a small family.                                                      *)
(***************************************************************************)
\* opaque red; the same red below the alpha threshold; a red towards
\* magenta (hue just above 350) with alpha on the threshold; opaque green;
\* an opaque dark red
Palette ==
    { Pixel(255, 0, 0, 255), Pixel(255, 0, 0, 127), Pixel(255, 0, 42, 128),
      Pixel(0, 255, 0, 255), Pixel(153, 0, 0, 255) }

\* the sizes width x height of at most MaxPixels pixels
ImageSizes ==
    {size \in (1..MaxPixels) \X (1..MaxPixels) : size[1] * size[2] <= MaxPixels}

\* every image of such a size over the palette
Images ==
    UNION { { ImageData(size[1], size[2], data) :
                 data \in [1..(size[1] * size[2]) -> Palette] } :
            size \in ImageSizes }

\* a hue below 360 by exactly the default hue tolerance, and hue 0
TargetColors == { [h |-> 345, s |-> 100, v |-> 100], [h |-> 0, s |-> 100, v |-> 100] }

\* the controller's default tolerance and a narrow one
Tolerances == { [h |-> 15, s |-> 20, v |-> 30], [h |-> 5, s |-> 5, v |-> 5] }

AnalysisInit ==
    /\ meshMaterial = [m \in Meshes |-> SceneMaterial(m)]
    /\ initMaterial = meshMaterial
    /\ panel = NoPanel
    /\ shaders = << >>
    /\ hasWorker = TRUE
    /\ wstate = "running"
    /\ originalMaterials = EmptyMap
    /\ highlightMaterials = << >>
    /\ isProcessing = FALSE
    /\ currentConfig = DefaultConfig
    /\ hasCallback = FALSE
    /\ pending = NoPending
    /\ inbox = << >>
    /\ outbox = << >>
    /\ lastOp = "constructor"
    /\ lastRet = "none"
    /\ cbOut = << >>
    /\ sinceClear = "never"
    /\ errorSeen = FALSE
    /\ handled = << >>

\* self.onmessage on an analyze request that carries this image: the
\* request is logged in handled, the response posted to outbox
AnalyzeMessage(imageData, targetColor, tolerance) ==
    /\ wstate = "running"
    /\ handled' = << [type |-> "analyze", imageData |-> imageData,
                      targetColor |-> targetColor, tolerance |-> tolerance] >>
    /\ outbox' = << AnalysisComplete(
                        analyzeTextureData(imageData, targetColor, tolerance)) >>
    /\ UNCHANGED <<sceneVars, ctlVars, wstate, inbox>>
    /\ UNCHANGED <<initMaterial, panel, sinceClear, errorSeen>>
    /\ Observe("workerOnMessage", "none", << >>)

\* one request in a run
AnalysisNext ==
    /\ handled = << >>
    /\ \E imageData \in Images, targetColor \in TargetColors,
          tolerance \in Tolerances :
            AnalyzeMessage(imageData, targetColor, tolerance)

AnalysisSpec == AnalysisInit /\ [][AnalysisNext]_vars

(***************************************************************************)
(* Properties.                                                             *)
(***************************************************************************)
\* requests posted to the worker and not yet answered to the controller
Outstanding == Len(inbox) + Len(outbox)

\* the highlight shaders of the surfaces the controller holds
BoundShaders == {shaders[i] : i \in BoundIds}

C2_RestoreGivesPreSetupMaterial ==
    lastOp = "restoreOriginalMaterials" =>
        \A m \in Meshes : meshMaterial[m] = initMaterial[m]

\* C3: every surface has at most one highlight material on record, its
\* active material is its original material or that recorded highlight
\* material, and the original on record is never replaced.
C3_OneHighlightOriginalKept ==
    \A m \in Meshes :
        /\ Cardinality({i \in DOMAIN highlightMaterials :
                            highlightMaterials[i].mesh = m}) <= 1
        /\ \/ meshMaterial[m] = initMaterial[m]
           \/ /\ m \in MapKeys(highlightMaterials)
              /\ meshMaterial[m] =
                   HighlightMaterial(highlightMaterials[MapGet(highlightMaterials, m)].id)
        /\ m \in DOMAIN originalMaterials => originalMaterials[m] = initMaterial[m]

\* the response type C4 names for a request
C4_Expected(req) ==
    IF req.type = "analyze" /\ req.hasParams /\ req.imageOk THEN "analysis-complete"
    ELSE IF req.type = "clear" THEN "highlight-ready"
    ELSE "error"

\* C4: for any sequence of requests sent to the worker, each handled request
\* has produced exactly one response, of the type its shape calls for
\* (analysis-complete, highlight-ready or error), none is answered twice, and
\* a failed request leaves the worker running and answering later requests.
C4_OneResponsePerRequest ==
    /\ Len(outbox) = Len(handled)
    /\ \A i \in DOMAIN handled :
          i \in DOMAIN outbox /\ outbox[i].type = C4_Expected(handled[i])
    /\ handled # << >> => wstate = "running"

\* a request failed and the next one was answered with a result
C4_Witness ==
    /\ Len(handled) >= 2
    /\ outbox[1].type = "error"
    /\ outbox[2].type = "analysis-complete"

\* the last step was a failure of an accepted highlightColor request
C5_FailureStep ==
    \/ lastOp = "extraction" /\ lastRet = "failed"
    \/ lastOp = "onmessage" /\ lastRet = "error"
    \/ lastOp = "onerror" /\ lastRet = "busy"

\* C5: every failure of an accepted highlightColor request (extraction
\* rejected, error response, worker error event) ends with the stats
\* callback being invoked with null.
C5_FailureReportsNull ==
    (hasCallback /\ C5_FailureStep) => cbOut = << NullStats >>

\* C6: when the worker answers with an error response, the controller
\* switches enableHighlight off on every bound shader and invokes the stats
\* callback with null.
C6_ErrorClearsHighlight ==
    (lastOp = "onmessage" /\ lastRet = "error") =>
        /\ \A material \in BoundShaders : ~material.enableHighlight
        /\ hasCallback => cbOut = << NullStats >>

\* C8: after clearHighlights no bound shader is enabled until a later
\* highlightColor call has been accepted; a response to a request accepted
\* before the clear does not switch the highlight on again.
C8_ClearedStaysCleared ==
    sinceClear = "cleared" =>
        \A material \in BoundShaders : ~material.enableHighlight

\* the highlight material the controller holds for a bound mesh
BoundMaterial(m) ==
    HighlightMaterial(highlightMaterials[MapGet(highlightMaterials, m)].id)

\* C7: clearHighlights switches enableHighlight off on every bound shader
\* and invokes the stats callback with null, and changes nothing else: every
\* bound surface keeps its highlight shader as active material, both maps
\* are unchanged and every shader keeps its mask texture.
C7_ClearOnlyDisables ==
    [][lastOp' = "clearHighlights" =>
          /\ \A i \in BoundIds : ~shaders'[i].enableHighlight
          /\ hasCallback => cbOut' = << NullStats >>
          /\ UNCHANGED <<meshMaterial, originalMaterials, highlightMaterials>>
          /\ \A m \in MapKeys(highlightMaterials) : meshMaterial'[m] = BoundMaterial(m)
          /\ DOMAIN shaders' = DOMAIN shaders
          /\ \A i \in DOMAIN shaders :
                shaders'[i] = [shaders[i] EXCEPT !.enableHighlight = shaders'[i].enableHighlight]
          /\ \A i \in DOMAIN shaders \ BoundIds : shaders'[i] = shaders[i]
          /\ UNCHANGED <<hasWorker, isProcessing, currentConfig, pending, workerVars>>
      ]_vars

\* clearHighlights has run on a bound shader that carries a computed mask
C7_Witness ==
    /\ lastOp = "clearHighlights"
    /\ hasCallback
    /\ \E material \in BoundShaders :
          material.highlightMask # EmptyMask /\ ~material.enableHighlight

\* C9: after dispose every surface has the material recorded as its
\* original, the worker is terminated and the controller holds none, both
\* maps are empty and isHighlighting is false.
C9_DisposeReleasesAll ==
    [][lastOp' \in {"dispose", "cleanup"} =>
          /\ \A m \in DOMAIN originalMaterials : meshMaterial'[m] = originalMaterials[m]
          /\ ~hasWorker'
          /\ wstate' \in {"absent", "terminated"}
          /\ hasWorker => wstate' = "terminated"
          /\ originalMaterials' = EmptyMap
          /\ highlightMaterials' = << >>
          /\ ~isHighlighting'
      ]_vars

\* dispose has run on a controller with a live worker and a bound surface
C9_Witness ==
    /\ lastOp = "dispose"
    /\ wstate = "terminated"
    /\ shaders # << >>
    /\ sinceClear = "cleared"
    /\ \A m \in Meshes : meshMaterial[m] = initMaterial[m]

\* the operations C10 is about; dispose and cleanup are one operation
C10_Ops == {"clearHighlights", "restoreOriginalMaterials", "dispose", "cleanup"}

C10_SameOp(a, b) == a = b \/ {a, b} \subseteq {"dispose", "cleanup"}

\* C10: clearHighlights, restoreOriginalMaterials and dispose/cleanup are
\* idempotent and never throw: run right after itself, each leaves the
\* controller, the surfaces, the shaders and the worker as they were, and
\* each can be called in every state, after dispose too.
C10_IdempotentNoThrow ==
    /\ [][(lastOp' \in C10_Ops /\ C10_SameOp(lastOp, lastOp')) =>
              UNCHANGED progVars]_vars
    /\ [](/\ ENABLED ClearHighlights
          /\ ENABLED RestoreOriginalMaterials
          /\ ENABLED Dispose
          /\ ENABLED Cleanup)

\* restoreOriginalMaterials has run after dispose
C10_Witness ==
    /\ lastOp = "restoreOriginalMaterials"
    /\ wstate = "terminated"
    /\ ~hasWorker
    /\ shaders # << >>

\* a request has been accepted or posted and not yet answered
C11_InFlight == isProcessing \/ pending.kind # "none" \/ Outstanding > 0

C12_Release ==
    \/ lastOp' = "onmessage"
    \/ lastOp' = "onerror"
    \/ lastOp' = "extraction" /\ lastRet' = "failed"

\* C12: an accepted request sets isProcessing; the flag is reset only when
\* a worker response, a worker error event or an extraction failure is
\* handled, by no other operation; and as long as it is set every
\* highlightColor call is dropped, so a worker that never answers leaves the
\* controller busy for good.
C12_BusyUntilHandled ==
    [][/\ (lastOp' = "highlightColor" /\ lastRet' = "accepted") => isProcessing'
       /\ (isProcessing /\ ~isProcessing') => C12_Release
       /\ (isProcessing /\ ~C12_Release) => isProcessing'
       /\ (isProcessing /\ lastOp' = "highlightColor") =>
              /\ lastRet' = "dropped"
              /\ UNCHANGED <<pending, inbox>>
      ]_vars

\* a request was posted to a worker that has not answered, the highlight
\* was cleared meanwhile, and a later highlightColor call was dropped
C12_Witness ==
    /\ lastOp = "highlightColor"
    /\ lastRet = "dropped"
    /\ isProcessing
    /\ inbox # << >>
    /\ sinceClear = "cleared"

\* C13: a returned mask whose length is no perfect square is not uploaded,
\* every shader keeps its mask and its enableHighlight; and every mask a
\* shader carries is size x size with size * size the length of its data.
C13_NonSquareMaskSkipped ==
    /\ [][(/\ lastOp' = "onmessage"
            /\ lastRet' = "analysis-complete"
            /\ ~\E k \in 0..Head(outbox).highlightMask.len :
                    k * k = Head(outbox).highlightMask.len) =>
              shaders' = shaders
         ]_vars
    /\ [](\A i \in DOMAIN shaders :
              /\ shaders[i].highlightMask.w = shaders[i].highlightMask.h
              /\ shaders[i].highlightMask.w * shaders[i].highlightMask.h
                    = shaders[i].highlightMask.len)

\* the analysis of the 2 x 1 texture came back and was reported, and the
\* bound shaders, one of them highlighted before, are as they were
C13_Witness ==
    /\ lastOp = "onmessage"
    /\ lastRet = "analysis-complete"
    /\ cbOut = << [kind |-> "stats", tex |-> "texWide", target |-> "red"] >>
    /\ \E material \in BoundShaders :
          material.enableHighlight /\ material.highlightMask.tex = "texCanvas"

\* C14: setupMeshHighlighting returns false exactly when the mesh has no
\* material or its material has no discoverable texture, and a call that
\* returns false changes nothing: the materials of the meshes, the two maps
\* of the controller and isHighlighting are as before.
C14_FalseChangesNothing ==
    [][\A mesh \in Meshes :
          SetupMeshHighlighting(mesh) =>
             /\ (lastRet' = "false") <=>
                    \/ meshMaterial[mesh] = NoMaterial
                    \/ DiscoverTexture(meshMaterial[mesh]) = NoTexture
             /\ (lastRet' = "false") =>
                    /\ UNCHANGED <<meshMaterial, originalMaterials, highlightMaterials>>
                    /\ isHighlighting' = isHighlighting
      ]_vars

\* C15: a successful setupMeshHighlighting(mesh) records the material the
\* mesh had at the call as its original, makes a new highlight shader on the
\* discovered texture the mesh's active material, with enableHighlight
\* false; and enableHighlight of a shader turns true only when an
\* analysis-complete response is applied.
C15_SetupInstallsDisabledShader ==
    [][/\ \A mesh \in Meshes :
             (SetupMeshHighlighting(mesh) /\ lastRet' = "true") =>
                LET new == Len(shaders) + 1
                IN  /\ originalMaterials'[mesh] = meshMaterial[mesh]
                    /\ DOMAIN shaders' = DOMAIN shaders \cup {new}
                    /\ meshMaterial'[mesh] = HighlightMaterial(new)
                    /\ mesh \in MapKeys(highlightMaterials')
                    /\ highlightMaterials'[MapGet(highlightMaterials', mesh)].id = new
                    /\ shaders'[new].originalTexture
                          = DiscoverTexture(meshMaterial[mesh])
                    /\ shaders'[new].originalTexture # NoTexture
                    /\ ~shaders'[new].enableHighlight
       /\ \A i \in DOMAIN shaders' :
             (shaders'[i].enableHighlight
                 /\ (i \in DOMAIN shaders => ~shaders[i].enableHighlight)) =>
                (lastOp' = "onmessage" /\ lastRet' = "analysis-complete")
      ]_vars

\* a second surface was set up while the first one was highlighted: the
\* new shader is off, the old one still on
C15_Witness ==
    /\ lastOp = "setupMeshHighlighting"
    /\ lastRet = "true"
    /\ Len(highlightMaterials) = 2
    /\ shaders[highlightMaterials[1].id].enableHighlight
    /\ ~shaders[highlightMaterials[2].id].enableHighlight
    /\ shaders[highlightMaterials[2].id].highlightMask = EmptyMask

C17_NoWorkerDisablesHighlighting ==
    /\ [][wstate = "absent" => wstate' = "absent" /\ ~hasWorker']_vars
    /\ [](wstate = "absent" =>
              /\ ~hasWorker
              /\ ~isProcessing
              /\ pending = NoPending
              /\ inbox = << >>
              /\ outbox = << >>
              /\ \A material \in BoundShaders : ~material.enableHighlight
              /\ lastOp = "highlightColor" => (lastRet = "dropped" /\ cbOut = << >>))

\* highlightColor was called on a controller without worker that holds a
\* bound surface and a callback
C17_Witness ==
    /\ wstate = "absent"
    /\ lastOp = "highlightColor"
    /\ lastRet = "dropped"
    /\ hasCallback
    /\ highlightMaterials # << >>

\* the circular distance min(|h1 - h2|, 360 - |h1 - h2|) of two hues
C18_HueDistance(h1, h2) ==
    LET d     == FracAbsDiff(h1, h2)
        other == IntMinusFrac(360, d)
    IN  IF d.num <= other.num THEN d ELSE other

\* is this pixel within the tolerance window of the target?
C18_InWindow(pixel, targetColor, tolerance) ==
    LET hsv == rgbToHsv(pixel.r, pixel.g, pixel.b)
    IN  /\ FracLeq(C18_HueDistance(hsv.h, Frac(targetColor.h, 1)), tolerance.h)
        /\ FracLeq(FracAbsDiff(hsv.s, Frac(targetColor.s, 1)), tolerance.s)
        /\ FracLeq(FracAbsDiff(hsv.v, Frac(targetColor.v, 1)), tolerance.v)

\* C18: in the mask of every analysis a pixel's entry is 255 if its alpha is
\* at least 128 and its HSV lies within the tolerance window of the target,
\* the hue distance being the circular one, and 0 otherwise.
C18_MaskMarksWindow ==
    \A n \in DOMAIN handled :
        LET request == handled[n]
            mask    == outbox[n].highlightMask
        IN  /\ DOMAIN mask = DOMAIN request.imageData.data
            /\ \A k \in DOMAIN mask :
                  mask[k] =
                     IF /\ request.imageData.data[k].a >= 128
                        /\ C18_InWindow(request.imageData.data[k],
                                        request.targetColor, request.tolerance)
                     THEN 255 ELSE 0

\* an analysis towards hue 345 marked the pure red pixel (hue 0, across the
\* wraparound), left out the same red below the alpha threshold and left
\* out the green pixel
C18_Witness ==
    /\ handled # << >>
    /\ handled[1].targetColor.h = 345
    /\ \E i, j, k \in DOMAIN handled[1].imageData.data :
          /\ handled[1].imageData.data[i] = Pixel(255, 0, 0, 255)
          /\ outbox[1].highlightMask[i] = 255
          /\ handled[1].imageData.data[j] = Pixel(255, 0, 0, 127)
          /\ outbox[1].highlightMask[j] = 0
          /\ handled[1].imageData.data[k] = Pixel(0, 255, 0, 255)
          /\ outbox[1].highlightMask[k] = 0

\* C19: in every analysis result matchingPixels is the number of mask
\* entries marked 255 and coverage is matchingPixels / (width * height).
C19_StatsMatchMask ==
    \A n \in DOMAIN handled :
        LET image    == handled[n].imageData
            response == outbox[n]
            marked   == {k \in DOMAIN response.highlightMask :
                            response.highlightMask[k] = 255}
        IN  /\ response.matchingPixels = Cardinality(marked)
            /\ response.coverage.den > 0
            /\ response.coverage.num * (image.width * image.height)
                  = response.matchingPixels * response.coverage.den

\* an analysis marked some but not all pixels of an image that also holds a
\* pixel of the target colour below the alpha threshold
C19_Witness ==
    /\ handled # << >>
    /\ handled[1].targetColor.h = 0
    /\ outbox[1].matchingPixels = 2
    /\ handled[1].imageData.width * handled[1].imageData.height = 4
    /\ \E k \in DOMAIN handled[1].imageData.data :
          handled[1].imageData.data[k] = Pixel(255, 0, 0, 127)

\* column and row of the pixel at place k of an image of this width
C20_X(k, width) == (k - 1) % width

C20_Y(k, width) == (k - 1) \div width

\* C20: when pixels matched, the corners of the bounding box are the least
\* and the greatest column of a matched pixel divided by the width and the
\* least and the greatest row divided by the height, so that every matched
\* pixel lies inside and every side passes through a matched pixel; when
\* none matched, matchingPixels and coverage are 0 and the box is
\* [0,0]-[0,0].
C20_BoxSpansMatches ==
    \A n \in DOMAIN handled :
        LET width    == handled[n].imageData.width
            height   == handled[n].imageData.height
            response == outbox[n]
            box      == response.boundingBox
            marked   == {k \in DOMAIN response.highlightMask :
                            response.highlightMask[k] = 255}
        IN  IF marked # {}
            THEN /\ \A k \in marked :
                       /\ box.min[1].num * width <= C20_X(k, width) * box.min[1].den
                       /\ box.max[1].num * width >= C20_X(k, width) * box.max[1].den
                       /\ box.min[2].num * height <= C20_Y(k, width) * box.min[2].den
                       /\ box.max[2].num * height >= C20_Y(k, width) * box.max[2].den
                 /\ \E k \in marked :
                       box.min[1].num * width = C20_X(k, width) * box.min[1].den
                 /\ \E k \in marked :
                       box.max[1].num * width = C20_X(k, width) * box.max[1].den
                 /\ \E k \in marked :
                       box.min[2].num * height = C20_Y(k, width) * box.min[2].den
                 /\ \E k \in marked :
                       box.max[2].num * height = C20_Y(k, width) * box.max[2].den
            ELSE /\ response.matchingPixels = 0
                 /\ response.coverage.num = 0
                 /\ \A c \in 1..2 : box.min[c].num = 0 /\ box.max[c].num = 0

\* in a 2 x 2 image only the pixel at column 1, row 1 matched: the box
\* starts away from the origin
C20_Witness ==
    /\ handled # << >>
    /\ handled[1].imageData.width = 2
    /\ handled[1].imageData.height = 2
    /\ outbox[1].matchingPixels = 1
    /\ outbox[1].highlightMask[4] = 255
    /\ outbox[1].boundingBox.min[1].num > 0
    /\ outbox[1].boundingBox.min[2].num > 0

\* the amounts by which C21 widens a component of the tolerance
C21_Widenings == {1, 10, 25, 170}

\* the tolerances that are wider than this one in one component
C21_Wider(tolerance) ==
    UNION { { [tolerance EXCEPT !.h = @ + d], [tolerance EXCEPT !.s = @ + d],
              [tolerance EXCEPT !.v = @ + d] } : d \in C21_Widenings }

\* C21: for the image and the target of an analysis, the analysis under a
\* tolerance wider in h, s or v marks every pixel the narrower one marked
\* and counts at least as many matching pixels.
C21_ToleranceMonotone ==
    \A n \in DOMAIN handled :
        \A wider \in C21_Wider(handled[n].tolerance) :
            LET result == analyzeTextureData(handled[n].imageData,
                                             handled[n].targetColor, wider)
            IN  /\ result.stats.matchingPixels >= outbox[n].matchingPixels
                /\ \A k \in DOMAIN outbox[n].highlightMask :
                      outbox[n].highlightMask[k] = 255 => result.mask[k] = 255

\* an analysis under the narrow tolerance matched a pixel, and widening the
\* hue tolerance by 10 matches one pixel more
C21_Witness ==
    /\ handled # << >>
    /\ handled[1].tolerance = [h |-> 5, s |-> 5, v |-> 5]
    /\ outbox[1].matchingPixels = 1
    /\ analyzeTextureData(handled[1].imageData, handled[1].targetColor,
                          [h |-> 15, s |-> 5, v |-> 5]).stats.matchingPixels = 2

----------------------------------------------------------------------------
\* The pure functions of the image preprocessing worker and of the material
\* analysis, each called once on an input drawn from a bounded family.

MaxSide == 3

\* rgbToHsv of the material analysis (syntheticTexture.ts): the red case
\* adds 6 before the division by 6 where the worker adds 1 after it
syntheticRgbToHsv(r, g, b) ==
    LET max  == Max2(r, Max2(g, b))
        min  == Min2(r, Min2(g, b))
        diff == max - min
        \* h * 6
        h6   == IF diff = 0 THEN Frac(0, 1)
                ELSE IF max = r
                     THEN Frac((g - b) + (IF g < b THEN 6 * diff ELSE 0), diff)
                ELSE IF max = g THEN Frac((b - r) + 2 * diff, diff)
                ELSE Frac((r - g) + 4 * diff, diff)
        s    == IF max = 0 THEN Frac(0, 1) ELSE Frac(100 * diff, max)
    IN  [h |-> Frac(60 * h6.num, h6.den), s |-> s, v |-> Frac(100 * max, 255)]

\* Math.max(0, Math.min(n - 1, i))
Clamp(i, n) == Max2(0, Min2(n - 1, i))

\* a plausible slip: the kernel size is halved twice
radiusQuartered(kernelSize) == kernelSize \div 4

\* Math.floor(kernelSize / 2)
radius(kernelSize) == kernelSize \div 2

\* the pixels the two inner loops visit for the pixel (x, y)
kernelWindow(imageData, x, y, kernelSize) ==
    LET r == radius(kernelSize)
    IN  { imageData.data[Clamp(y + dy, imageData.height) * imageData.width
                         + Clamp(x + dx, imageData.width) + 1] :
            dy \in (-r)..r, dx \in (-r)..r }

\* Math.min folded over the values, starting from start
MinFrom(start, values) == CHOOSE m \in values \cup {start} : \A n \in values \cup {start} : m <= n

\* Math.max folded over the values, starting from start
MaxFrom(start, values) == CHOOSE m \in values \cup {start} : \A n \in values \cup {start} : m >= n

\* erosion(imageData, kernelSize)
erosion(imageData, kernelSize) ==
    ImageData(imageData.width, imageData.height,
        [k \in 1..(imageData.width * imageData.height) |->
            LET win == kernelWindow(imageData, (k - 1) % imageData.width,
                                    (k - 1) \div imageData.width, kernelSize)
            IN  Pixel(MinFrom(255, {p.r : p \in win}), MinFrom(255, {p.g : p \in win}),
                      MinFrom(255, {p.b : p \in win}), imageData.data[k].a)])

\* dilation(imageData, kernelSize)
dilation(imageData, kernelSize) ==
    ImageData(imageData.width, imageData.height,
        [k \in 1..(imageData.width * imageData.height) |->
            LET win == kernelWindow(imageData, (k - 1) % imageData.width,
                                    (k - 1) \div imageData.width, kernelSize)
            IN  Pixel(MaxFrom(0, {p.r : p \in win}), MaxFrom(0, {p.g : p \in win}),
                      MaxFrom(0, {p.b : p \in win}), imageData.data[k].a)])

\* morphologicalOpening(imageData, kernelSize)
morphologicalOpening(imageData, kernelSize) ==
    dilation(erosion(imageData, kernelSize), kernelSize)

\* the sum of counts[i] over the bins i
RECURSIVE SumBins(_, _)
SumBins(counts, bins) ==
    IF bins = {} THEN 0
    ELSE LET i == CHOOSE i \in bins : TRUE
         IN  counts[i] + SumBins(counts, bins \ {i})

\* applyCLAHE, the histogram of a tile.  lightness[k] is Math.round of the
\* L channel of pixel k, which rgbToLab keeps within 0..100.  Only the bins
\* some pixel of the tile falls into are counted one by one: every other
\* bin holds 0 before the redistribution and perBin after it.
claheHistogram(lightness, places) ==
    [i \in { Clamp(lightness[k], 256) : k \in places } |->
        Cardinality({k \in places : Clamp(lightness[k], 256) = i})]

\* applyCLAHE, the cumulative distribution of the clipped histogram with
\* perBin added to each of the 256 bins
claheCdf(clipped, perBin) ==
    [i \in 0..255 |->
        SumBins(clipped, {j \in DOMAIN clipped : j <= i}) + (i + 1) * perBin]

\* applyCLAHE, contrast limiting and redistribution for one tile
claheLimit(startX, startY, pixelCount, histogram, maxAllowed) ==
    LET redistributed ==
            SumBins([i \in DOMAIN histogram |->
                        IF histogram[i] > maxAllowed
                        THEN histogram[i] - maxAllowed ELSE 0], DOMAIN histogram)
        perBin == redistributed \div 256
    IN  [startX |-> startX, startY |-> startY, pixelCount |-> pixelCount,
         maxAllowed |-> maxAllowed, redistributed |-> redistributed,
         perBin |-> perBin,
         cdf |-> claheCdf([i \in DOMAIN histogram |-> Min2(histogram[i], maxAllowed)],
                          perBin)]

\* applyCLAHE on one tile; clipLimit is a fraction
claheTile(width, lightness, startX, startY, endX, endY, clipLimit) ==
    LET places == { y * width + x + 1 : x \in startX..(endX - 1),
                                        y \in startY..(endY - 1) }
    IN  claheLimit(startX, startY, Cardinality(places),
                   claheHistogram(lightness, places),
                   (Cardinality(places) * clipLimit.num) \div (256 * clipLimit.den))

\* Math.ceil(n / tileSize)
CeilDiv(n, tileSize) == (n + tileSize - 1) \div tileSize

\* applyCLAHE(imageData, tileSize, clipLimit): what it computes for the
\* tiles, row by row
applyCLAHE(width, height, lightness, tileSize, clipLimit) ==
    LET tilesX == CeilDiv(width, tileSize)
        tilesY == CeilDiv(height, tileSize)
    IN  [t \in 1..(tilesX * tilesY) |->
            LET startX == ((t - 1) % tilesX) * tileSize
                startY == ((t - 1) \div tilesX) * tileSize
            IN  claheTile(width, lightness, startX, startY,
                          Min2(startX + tileSize, width),
                          Min2(startY + tileSize, height), clipLimit)]

\* byte values at both ends and in the middle of the range
Bytes == {0, 1, 3, 127, 128, 254, 255}

\* the sizes of the images the morphology is tried on
MorphSizes == (1..MaxSide) \X (1..MaxSide)

Background == Pixel(0, 0, 0, 255)

SpeckColors == { Pixel(255, 255, 255, 255), Pixel(200, 0, 0, 255), Pixel(0, 7, 90, 128) }

\* the images with one speck on the background, and the uniform images
MorphImages ==
    UNION { { ImageData(size[1], size[2],
                  [k \in 1..(size[1] * size[2]) |-> IF k = at THEN c ELSE Background]) :
                 at \in 0..(size[1] * size[2]), c \in SpeckColors } :
            size \in MorphSizes }

KernelSizes == {-2, -1, 0, 1, 2, 3, 5}

\* the images the equalisation is tried on, by the lightness of their
\* pixels: uniform dark, uniform light, alternating, and a ramp
ClaheSizes == { <<2, 2>>, <<3, 2>>, <<8, 8>>, <<9, 8>>, <<16, 16>> }

ClaheImages ==
    UNION { { [width |-> size[1], height |-> size[2],
               lightness |-> [k \in 1..(size[1] * size[2]) |->
                                 CASE kind = "dark"  -> 0
                                   [] kind = "light" -> 100
                                   [] kind = "alternating" -> 100 * (k % 2)
                                   [] OTHER -> k % 101]] :
                 kind \in {"dark", "light", "alternating", "ramp"} } :
            size \in ClaheSizes }

TileSizes == {1, 2, 8, 16}

\* the default clip limit 2.0, a limit below one, and limits that clip
\* little or nothing
ClipLimits == { Frac(2, 1), Frac(1, 2), Frac(4, 1), Frac(256, 1) }

FunctionInit == AnalysisInit

FunctionCall(request, result) ==
    /\ handled' = << request >>
    /\ outbox' = << result >>
    /\ UNCHANGED <<sceneVars, ctlVars, wstate, inbox>>
    /\ UNCHANGED <<initMaterial, panel, sinceClear, errorSeen>>
    /\ Observe(request.type, "returned", << >>)

RgbToHsvCall(r, g, b) ==
    FunctionCall([type |-> "rgbToHsv", r |-> r, g |-> g, b |-> b],
                 [worker |-> rgbToHsv(r, g, b), material |-> syntheticRgbToHsv(r, g, b)])

ErosionCall(imageData, kernelSize) ==
    FunctionCall([type |-> "erosion", imageData |-> imageData, kernelSize |-> kernelSize],
                 [imageData |-> erosion(imageData, kernelSize)])

DilationCall(imageData, kernelSize) ==
    FunctionCall([type |-> "dilation", imageData |-> imageData, kernelSize |-> kernelSize],
                 [imageData |-> dilation(imageData, kernelSize)])

MorphologicalOpeningCall(imageData, kernelSize) ==
    FunctionCall([type |-> "morphologicalOpening", imageData |-> imageData,
                  kernelSize |-> kernelSize],
                 [imageData |-> morphologicalOpening(imageData, kernelSize)])

ApplyCLAHECall(image, tileSize, clipLimit) ==
    FunctionCall([type |-> "applyCLAHE", image |-> image, tileSize |-> tileSize,
                  clipLimit |-> clipLimit],
                 [tiles |-> applyCLAHE(image.width, image.height, image.lightness,
                                       tileSize, clipLimit)])

\* one call in a run
FunctionNext ==
    /\ handled = << >>
    /\ \/ \E r \in Bytes, g \in Bytes, b \in Bytes : RgbToHsvCall(r, g, b)
       \/ \E imageData \in MorphImages, kernelSize \in KernelSizes :
             ErosionCall(imageData, kernelSize)
       \/ \E imageData \in MorphImages, kernelSize \in KernelSizes :
             DilationCall(imageData, kernelSize)
       \/ \E imageData \in MorphImages, kernelSize \in KernelSizes :
             MorphologicalOpeningCall(imageData, kernelSize)
       \/ \E image \in ClaheImages, tileSize \in TileSizes, clipLimit \in ClipLimits :
             ApplyCLAHECall(image, tileSize, clipLimit)

FunctionSpec == FunctionInit /\ [][FunctionNext]_vars

----------------------------------------------------------------------------
\* Properties of the pure functions

\* some colour channel of the pixel is above zero
C22_Lit(pixel) == pixel.r # 0 \/ pixel.g # 0 \/ pixel.b # 0

\* the image is one lit pixel on a background of pixels that are not lit
C22_Speck(imageData) ==
    /\ Cardinality({k \in DOMAIN imageData.data : C22_Lit(imageData.data[k])}) = 1
    /\ \E k \in DOMAIN imageData.data : ~C22_Lit(imageData.data[k])

\* C22: morphologicalOpening with kernel size 3 on an image that is a single
\* lit pixel on a zero background returns an image with no lit pixel,
\* wherever in the image the lit pixel lies.
C22_OpeningRemovesSpeck ==
    \A n \in DOMAIN handled :
        ( /\ handled[n].type = "morphologicalOpening"
          /\ handled[n].kernelSize = 3
          /\ C22_Speck(handled[n].imageData) )
        => \A k \in DOMAIN outbox[n].imageData.data :
              ~C22_Lit(outbox[n].imageData.data[k])

\* the opening with kernel size 3 has removed a white speck from the corner
\* of a 3 x 3 image
C22_Witness ==
    /\ handled # << >>
    /\ handled[1].type = "morphologicalOpening"
    /\ handled[1].kernelSize = 3
    /\ handled[1].imageData.width = 3 /\ handled[1].imageData.height = 3
    /\ handled[1].imageData.data[1] = Pixel(255, 255, 255, 255)
    /\ C22_Speck(handled[1].imageData)
    /\ \A k \in 1..9 : ~C22_Lit(outbox[1].imageData.data[k])

\* C23: a call of erosion, dilation or morphologicalOpening with a kernel
\* size of zero or below ends in an error and yields no image.
C23_NonPositiveKernelRejected ==
    \A n \in DOMAIN handled :
        ( /\ handled[n].type \in {"erosion", "dilation", "morphologicalOpening"}
          /\ handled[n].kernelSize <= 0 )
        => /\ lastRet = "error"
           /\ "imageData" \notin DOMAIN outbox[n]

\* the two fractions are the same number
C24_Same(p, q) == p.num * q.den = q.num * p.den

\* the fraction is the integer n
C24_Is(p, n) == p.num = n * p.den

\* hsv is what C24 says of the bytes r, g, b
C24_Conforms(hsv, r, g, b) ==
    LET max == Max2(r, Max2(g, b))
    IN  /\ hsv.h.den > 0 /\ hsv.s.den > 0 /\ hsv.v.den > 0
        /\ 0 <= hsv.h.num /\ hsv.h.num < 360 * hsv.h.den
        /\ 0 <= hsv.s.num /\ hsv.s.num <= 100 * hsv.s.den
        /\ hsv.v.num * 255 = 100 * max * hsv.v.den
        /\ (max = 0 \/ (r = g /\ g = b)) => hsv.s.num = 0
        /\ (r = 255 /\ g = 0 /\ b = 0)
              => C24_Is(hsv.h, 0) /\ C24_Is(hsv.s, 100) /\ C24_Is(hsv.v, 100)
        /\ (r = 0 /\ g = 255 /\ b = 0)
              => C24_Is(hsv.h, 120) /\ C24_Is(hsv.s, 100) /\ C24_Is(hsv.v, 100)
        /\ (r = 0 /\ g = 0 /\ b = 255)
              => C24_Is(hsv.h, 240) /\ C24_Is(hsv.s, 100) /\ C24_Is(hsv.v, 100)

C25_ClippedMassKept ==
    \A n \in DOMAIN handled :
        handled[n].type = "applyCLAHE"
        => \A t \in DOMAIN outbox[n].tiles :
              outbox[n].tiles[t].cdf[255] = outbox[n].tiles[t].pixelCount

----------------------------------------------------------------------------
\* Properties of the controller, continued

\* C26: when handleWorkerResponse hands the callback statistics that are not
\* null, every bound shader is enabled and carries the mask of that
\* response: no statistics are reported for a mask that was not uploaded.
C26_StatsOnlyForAppliedMask ==
    [][(/\ lastOp' = "onmessage"
        /\ cbOut' # << >>
        /\ cbOut'[1].kind = "stats") =>
          \A i \in BoundIds :
             /\ shaders'[i].enableHighlight
             /\ shaders'[i].highlightMask.tex = Head(outbox).highlightMask.tex
             /\ shaders'[i].highlightMask.target = Head(outbox).highlightMask.target
             /\ shaders'[i].highlightMask.len = Head(outbox).highlightMask.len
      ]_vars

\* C27: the mask a bound shader carries from an analysis has the width and
\* the height of the image that was analysed for it.
C27_MaskHasBufferDimensions ==
    \A i \in BoundIds :
        shaders[i].highlightMask.tex # NoTexture
        => /\ shaders[i].highlightMask.w = TexWidth(shaders[i].highlightMask.tex)
           /\ shaders[i].highlightMask.h = TexHeight(shaders[i].highlightMask.tex)

\* C28: the mask a bound shader carries from an analysis was computed from
\* the original texture of that shader's own surface.
C28_MaskFromOwnTexture ==
    \A i \in BoundIds :
        shaders[i].highlightMask.tex # NoTexture
        => shaders[i].highlightMask.tex = shaders[i].originalTexture

\* C29: once dispose has released the worker, the continuations of a request
\* accepted before it (the settling of the texture extraction, the handling
\* of a worker response) post nothing to a worker, leave the materials of
\* the meshes and the shaders as they are, and do not call the callback.
\* No request is accepted without a worker, so that every continuation that
\* runs without one belongs to a request from before the dispose.
C29_NoEffectAfterDispose ==
    [][(/\ ~hasWorker
        /\ lastOp' \in {"extraction", "onmessage"}) =>
          /\ cbOut' = << >>
          /\ inbox' = inbox
          /\ shaders' = shaders
          /\ meshMaterial' = meshMaterial
      ]_vars

----------------------------------------------------------------------------
\* ColorAnalysisPanel: the effect on [mesh] that analyses the palettes and
\* then constructs the highlight controller.  A controller is kept here by
\* the mesh it was set up on and by whether cleanup() was called on it.

MaxAnalyses == 3

\* new ColorHighlightController() and setupMeshHighlighting(mesh)
PanelController(mesh) == [mesh |-> mesh, disposed |-> FALSE]

\* highlightControllerRef.current?.cleanup(): the controllers afterwards
CleanupRef(p) ==
    IF p.ref = 0 THEN p.controllers
    ELSE [p.controllers EXCEPT ![p.ref].disposed = TRUE]

\* the cleanup function of the last run of the effect: the run without a
\* mesh returns none
EffectCleanup(p) == IF p.mesh = 0 THEN p.controllers ELSE CleanupRef(p)

\* the sequence without its i-th element
RemoveAt(seq, i) == SubSeq(seq, 1, i - 1) \o SubSeq(seq, i + 1, Len(seq))

\* the mesh prop changes: React runs the cleanup of the last run, then the
\* effect; with a mesh the effect starts the palette analyses
SetMesh(mesh) ==
    /\ panel.mounted
    /\ mesh # panel.mesh
    /\ mesh # 0 => Len(panel.controllers) + Len(panel.analyses) < MaxAnalyses
    /\ panel' = IF mesh = 0
                THEN [panel EXCEPT !.mesh = 0,
                                   !.controllers = CleanupRef(panel),
                                   !.ref = 0]
                ELSE [panel EXCEPT !.mesh = mesh,
                                   !.controllers = EffectCleanup(panel),
                                   !.analyses = Append(@, mesh)]
    /\ UNCHANGED <<sceneVars, ctlVars, workerVars, obsVars>>
    /\ UNCHANGED <<initMaterial, sinceClear, errorSeen, handled>>

\* Promise.all(palettePromises).then(...) of the i-th analysis under way:
\* a new controller is stored in the ref and set up on the mesh the effect
\* was run with
AnalysisCompleted(i) ==
    /\ i \in DOMAIN panel.analyses
    /\ panel' = [panel EXCEPT
                    !.controllers = Append(@, PanelController(panel.analyses[i])),
                    !.ref = Len(panel.controllers) + 1,
                    !.analyses = RemoveAt(@, i)]
    /\ UNCHANGED <<sceneVars, ctlVars, workerVars, obsVars>>
    /\ UNCHANGED <<initMaterial, sinceClear, errorSeen, handled>>

\* the component unmounts: React runs the cleanup of the last run
Unmount ==
    /\ panel.mounted
    /\ panel' = [panel EXCEPT !.mounted = FALSE,
                              !.controllers = EffectCleanup(panel)]
    /\ UNCHANGED <<sceneVars, ctlVars, workerVars, obsVars>>
    /\ UNCHANGED <<initMaterial, sinceClear, errorSeen, handled>>

PanelInit == AnalysisInit

PanelNext ==
    \/ \E mesh \in Meshes \cup {0} : SetMesh(mesh)
    \/ \E i \in 1..MaxAnalyses : AnalysisCompleted(i)
    \/ Unmount

PanelSpec == PanelInit /\ [][PanelNext]_vars

\* the controllers of the panel on which cleanup() was not called
C30_Live == {c \in DOMAIN panel.controllers : ~panel.controllers[c].disposed}

\* C30: at every moment at most one controller of the panel is not
\* disposed; the controller in the ref, unless disposed, was set up on the
\* mesh the panel now shows; and once no analysis is under way every
\* controller that was set up on another mesh is disposed.
C30_OneControllerForCurrentMesh ==
    /\ Cardinality(C30_Live) <= 1
    /\ (panel.ref # 0 /\ panel.ref \in C30_Live)
          => panel.controllers[panel.ref].mesh = panel.mesh
    /\ panel.analyses = << >>
          => \A c \in C30_Live : panel.controllers[c].mesh = panel.mesh

====
